---- MODULE Spec2Model ----
(***************************************************************************)
(* A model of mlat/server/coordinator.py: the Coordinator's receiver       *)
(* registry, the inter-receiver distance maps, the interest sets, which    *)
(* are set objects that update_interest_sets takes from its caller, and    *)
(* the traffic requests of each Receiver.                                  *)
(*                                                                         *)
(* Receiver objects are numbered 1..constructed in the order in which      *)
(* Receiver.__init__ ran; object identity (Python's "is") is equality of   *)
(* these numbers.  Every Coordinator method runs to completion without     *)
(* suspension, so each method is one atomic action.                        *)
(***************************************************************************)
EXTENDS Integers, FiniteSets, Sequences, TLC

\* ---------------------------------------------------------------- bounds
MaxObjects == 3
MaxSessions == 2
MaxReporters == 1
MaxUsers == 2
MaxPosition == 1
MaxAircraft == 1
MaxHandlers == 2
MaxRegistrations == 2

Objs == 1..MaxObjects
Users == 1..MaxUsers
Positions == 0..MaxPosition
Aircraft == 1..MaxAircraft
Handlers == 1..MaxHandlers

\* The attributes sync_interest and mlat_interest of every Receiver object.
Attributes == 1..(2 * MaxObjects)

VARIABLES
    receivers,          \* Coordinator.receivers: user -> Receiver (a dict)
    constructed,        \* how many Receiver objects have been constructed
    user,               \* Receiver.user of each object
    position,           \* Receiver.position of each object
    dead,               \* Receiver.dead
    distance,           \* Receiver.distance: a dict Receiver -> distance
    last_rate_report,   \* Receiver.last_rate_report ("None" or "report")
    tracking,           \* Receiver.tracking
    requested,          \* Receiver.requested
    sync_interest,      \* Receiver.sync_interest
    mlat_interest,      \* Receiver.mlat_interest
    same_object,        \* the sets of these attributes bound to one set object
    interesting,        \* the aircraft whose .interesting is true
    traffic_request,    \* last set pushed by connection.request_traffic
    tracker_removed,    \* calls of tracker.remove_all per receiver
    clock_disconnected, \* calls of clock_tracker.receiver_disconnect
    call,               \* the last registry, interest or traffic call and
                        \* its outcome
    sighup_handlers,    \* Coordinator.sighup_handlers (a list)
    signal_hook,        \* whether the loop has a SIGHUP handler installed
    dispatch_state,     \* Coordinator.sighup: "idle", "running", "completed"
                        \* or "raised"
    dispatch_snapshot,  \* the list as it was when the pass began
    dispatch_invoked,   \* the handlers the pass has invoked, in order
    handler_call,       \* the last add/remove_sighup_handler call
    forward_call,       \* the arguments of the last forward_results call
    forward_attempts,   \* report_mlat_position calls of the last
                        \* forward_results, per receiver
    forward_delivered,  \* those of them that returned, per receiver
    forward_logged,     \* the receivers whose failure it logged
    forward_outcome,    \* how the last forward_results ended
    write_state_task,   \* Coordinator._write_state_task: "none", "pending",
                        \* "cancelled"
    cancel_requested,   \* Task.cancel() has been called on it
    wait_closed_done,   \* whether a wait_closed() coroutine has completed:
                        \* "no", "before_close" or "after_close"
    sync_view,          \* the dict written to sync.json
    locations_view      \* the dict written to locations.json

vars == <<receivers, constructed, user, position, dead, distance,
          last_rate_report, tracking, requested, sync_interest,
          mlat_interest, same_object, interesting, traffic_request, tracker_removed,
          clock_disconnected, call, sighup_handlers, signal_hook,
          dispatch_state, dispatch_snapshot, dispatch_invoked, handler_call,
          forward_call, forward_attempts, forward_delivered, forward_logged,
          forward_outcome, write_state_task, cancel_requested,
          wait_closed_done, sync_view, locations_view>>

registryVars == <<receivers, constructed, user, position, dead, distance,
                  tracker_removed, clock_disconnected>>
interestVars == <<sync_interest, mlat_interest, same_object>>
trafficVars == <<last_rate_report, tracking, requested, interesting,
                 traffic_request>>
receiverVars == <<registryVars, interestVars, trafficVars, call>>
signalVars == <<sighup_handlers, signal_hook, dispatch_state,
                dispatch_snapshot, dispatch_invoked, handler_call>>
forwardVars == <<forward_call, forward_attempts, forward_delivered,
                 forward_logged, forward_outcome>>
snapshotVars == <<write_state_task, cancel_requested, wait_closed_done,
                  sync_view, locations_view>>
serviceVars == <<signalVars, forwardVars, snapshotVars>>

\* ------------------------------------------------------------- helpers
\* The Receiver objects that exist.
Constructed == 1..constructed

\* self.receivers.values()
Values(reg) == {reg[u] : u \in DOMAIN reg}

\* The record of one call: the operation, the receiver object it was given
\* or has constructed (0: none), the user it named (0: none), the target sets
\* it was given, how it ended, and whether it repeats the call before it (the
\* same update_interest_sets call on the same receiver with the same sets).
Call(op, r, u, s, m, result) ==
    [op |-> op, receiver |-> r, user |-> u, new_sync |-> s, new_mlat |-> m,
     result |-> result,
     repeated |-> /\ op = "update_interest_sets"
                  /\ call.op = op
                  /\ call.receiver = r
                  /\ call.new_sync = s
                  /\ call.new_mlat = m]

\* geodesy.ecef_distance: positions are points of a line.
ecef_distance(p, q) == IF p >= q THEN p - q ELSE q - p

\* ---------------------------------------------------------------- Init
\* Receiver.__init__ defaults for every object; an empty registry.
Init ==
    /\ receivers = << >>
    /\ constructed = 0
    /\ user = [o \in Objs |-> 0]
    /\ position = [o \in Objs |-> 0]
    /\ dead = [o \in Objs |-> FALSE]
    /\ distance = [o \in Objs |-> << >>]
    /\ last_rate_report = [o \in Objs |-> "None"]
    /\ tracking = [o \in Objs |-> {}]
    /\ requested = [o \in Objs |-> {}]
    /\ sync_interest = [o \in Objs |-> {}]
    /\ mlat_interest = [o \in Objs |-> {}]
    /\ same_object = {}
    /\ interesting = {}
    /\ traffic_request = [o \in Objs |-> {}]
    /\ tracker_removed = [o \in Objs |-> 0]
    /\ clock_disconnected = [o \in Objs |-> 0]
    /\ call = [op |-> "init", receiver |-> 0, user |-> 0, new_sync |-> {},
               new_mlat |-> {}, result |-> "ok", repeated |-> FALSE]
    /\ sighup_handlers = << >>
    /\ signal_hook = FALSE
    /\ dispatch_state = "idle"
    /\ dispatch_snapshot = << >>
    /\ dispatch_invoked = << >>
    /\ handler_call = [op |-> "init", handler |-> 0, result |-> "ok",
                       in_pass |-> FALSE]
    /\ forward_call = [receivers |-> << >>, failing |-> {}]
    /\ forward_attempts = [o \in Objs |-> 0]
    /\ forward_delivered = [o \in Objs |-> 0]
    /\ forward_logged = {}
    /\ forward_outcome = "none"
    /\ write_state_task = "none"
    /\ cancel_requested = FALSE
    /\ wait_closed_done = "no"
    /\ sync_view = << >>
    /\ locations_view = << >>

\* ------------------------------------------------- Coordinator.new_receiver
\* A faulty line 176: the user is looked up among the registry's values, which
\* are Receiver objects, so the test never succeeds.
already_connected_among_values(u) == FALSE

\* Line 176: the test that rejects a user who is already connected.
already_connected(u) == u \in DOMAIN receivers

\* Faulty lines 189-192: line 193, the entry in the other receiver's map, is
\* missing.
distances_with_one_way(n, p) ==
    [o \in Objs |->
        IF o = n
        THEN [k \in {n} \cup Values(receivers) |->
                 IF k = n THEN 0 ELSE ecef_distance(p, position[k])]
        ELSE distance[o]]

\* Lines 189-193: the distance maps once receiver n, at position p, has been
\* measured against every registered receiver.
distances_with(n, p) ==
    [o \in Objs |->
        IF o = n
        THEN [k \in {n} \cup Values(receivers) |->
                 IF k = n THEN 0 ELSE ecef_distance(p, position[k])]
        ELSE IF o \in Values(receivers)
        THEN [k \in DOMAIN distance[o] \cup {n} |->
                 IF k = n THEN ecef_distance(p, position[o])
                 ELSE distance[o][k]]
        ELSE distance[o]]

\* Line 195: self.receivers[receiver.user] = receiver
registry_with(u, n) ==
    [k \in DOMAIN receivers \cup {u} |-> IF k = u THEN n ELSE receivers[k]]

\* Lines 176-177: the user is already connected; ValueError, nothing built.
new_receiver_duplicate(u) ==
    /\ already_connected(u)
    /\ call' = Call("new_receiver", 0, u, {}, {}, "already_connected")
    /\ UNCHANGED serviceVars
    /\ UNCHANGED <<registryVars, interestVars, trafficVars>>

\* A faulty new_receiver that runs the authenticator after lines 188-193: the
\* distances are in place when the authenticator raises.
new_receiver_rejected_late(u, p) ==
    /\ ~already_connected(u)
    /\ constructed < MaxObjects
    /\ LET n == constructed + 1 IN
        /\ constructed' = n
        /\ user' = [user EXCEPT ![n] = u]
        /\ position' = [position EXCEPT ![n] = p]
        /\ distance' = distances_with(n, p)
        /\ call' = Call("new_receiver", n, u, {}, {}, "auth_failed")
    /\ UNCHANGED serviceVars
    /\ UNCHANGED <<receivers, dead, tracker_removed,
                   clock_disconnected, interestVars, trafficVars>>

\* Lines 179-186 when the authenticator raises: the Receiver object has been
\* constructed and the exception leaves new_receiver.
new_receiver_rejected(u, p) ==
    /\ ~already_connected(u)
    /\ constructed < MaxObjects
    /\ LET n == constructed + 1 IN
        /\ constructed' = n
        /\ user' = [user EXCEPT ![n] = u]
        /\ position' = [position EXCEPT ![n] = p]
        /\ call' = Call("new_receiver", n, u, {}, {}, "auth_failed")
    /\ UNCHANGED serviceVars
    /\ UNCHANGED <<receivers, dead, distance, tracker_removed,
                   clock_disconnected, interestVars, trafficVars>>

\* Lines 179-196 when the authenticator returns (or there is none): it may
\* have set receiver.user to auth_user.
new_receiver_admitted(u, p, auth_user) ==
    /\ ~already_connected(u)
    /\ constructed < MaxObjects
    /\ LET n == constructed + 1 IN
        /\ constructed' = n
        /\ user' = [user EXCEPT ![n] = auth_user]
        /\ position' = [position EXCEPT ![n] = p]
        /\ distance' = distances_with(n, p)
        /\ receivers' = registry_with(auth_user, n)
        /\ call' = Call("new_receiver", n, u, {}, {}, "ok")
    /\ UNCHANGED serviceVars
    /\ UNCHANGED <<dead, tracker_removed, clock_disconnected,
                   interestVars, trafficVars>>

new_receiver(u, p) ==
    \/ new_receiver_duplicate(u)
    \/ new_receiver_rejected(u, p)
    \/ \E auth_user \in Users : new_receiver_admitted(u, p, auth_user)

\* ------------------------------------------ Coordinator.receiver_disconnect
\* A faulty line 202: receiver.user in self.receivers, a test of the key
\* where the code tests the object.
is_current_user(r) == user[r] \in DOMAIN receivers

\* Line 202: self.receivers.get(receiver.user) is receiver
is_current_entry(r) ==
    /\ user[r] \in DOMAIN receivers
    /\ receivers[user[r]] = r

\* Line 205: del self.receivers[receiver.user]
registry_without(u) == [k \in DOMAIN receivers \ {u} |-> receivers[k]]

\* Lines 208-209: pop receiver r from the distance map of every receiver
\* that is still registered.
distances_without(r) ==
    [o \in Objs |->
        IF o \in Values(registry_without(user[r]))
        THEN [k \in DOMAIN distance[o] \ {r} |-> distance[o][k]]
        ELSE distance[o]]

\* tracker.remove_all(receiver): the Tracker drops its state for the receiver
\* (spec 4.1); the Receiver's own interest sets are not part of that state.
tracker_remove_all(r) ==
    tracker_removed' = [tracker_removed EXCEPT ![r] = @ + 1]

\* clock_tracker.receiver_disconnect(receiver): the ClockTracker drops its
\* state for the receiver (spec 4.1).
clock_tracker_receiver_disconnect(r) ==
    clock_disconnected' = [clock_disconnected EXCEPT ![r] = @ + 1]

receiver_disconnect(r) ==
    /\ r \in Constructed
    /\ dead' = [dead EXCEPT ![r] = TRUE]
    /\ IF is_current_entry(r)
       THEN /\ tracker_remove_all(r)
            /\ clock_tracker_receiver_disconnect(r)
            /\ receivers' = registry_without(user[r])
            /\ distance' = distances_without(r)
            /\ call' = Call("receiver_disconnect", r, user[r], {}, {}, "ok")
       ELSE /\ UNCHANGED <<tracker_removed, clock_disconnected, receivers,
                           distance>>
            /\ call' = Call("receiver_disconnect", r, user[r], {}, {},
                            "ignored")
    /\ UNCHANGED serviceVars
    /\ UNCHANGED <<constructed, user, position, interestVars, trafficVars>>

\* --------------------------------------------- Receiver.update_interest_sets
\* A faulty update of one relation: lines 72-73 are missing, the receiver
\* keeps its own set.
reconciled_keeping_own_set(rel, r, new) ==
    [x \in Objs |->
        IF x = r THEN rel[r]
        ELSE IF x \in new \ rel[r] THEN rel[x] \cup {r}
        ELSE IF x \in rel[r] \ new THEN rel[x] \ {r}
        ELSE rel[x]]

\* Lines 60-64 and 72 (66-70 and 73 for mlat) on one relation rel, which is
\* sync_interest or mlat_interest, when every set of the relation and the
\* target set are separate objects: r is added to the set of every peer in
\* new - rel[r], discarded from the set of every peer in rel[r] - new, and
\* r's own set becomes new.
reconciled(rel, r, new) ==
    [x \in Objs |->
        IF x = r THEN new
        ELSE IF x \in new \ rel[r] THEN rel[x] \cup {r}
        ELSE IF x \in rel[r] \ new THEN rel[x] \ {r}
        ELSE rel[x]]

\* The set objects.  Lines 72-73 bind the caller's set objects to the two
\* attributes, so several attributes (of one receiver or of more) can be
\* bound to one object, and an add or discard through one of them is seen
\* through the others.  same_object holds the sets of two or more attributes
\* that are bound to one object; attributes bound to one object show the
\* same elements.  During a call the parameters new_sync and new_mlat are
\* two more references to set objects.
sync_attribute(r) == r
mlat_attribute(r) == MaxObjects + r
NewSync == 2 * MaxObjects + 1
NewMlat == 2 * MaxObjects + 2

\* The elements seen through attribute s.
elements(s) ==
    IF s <= MaxObjects THEN sync_interest[s]
    ELSE mlat_interest[s - MaxObjects]

\* An argument of update_interest_sets: which set object it is and the
\* elements it has at the time of the call.  fresh_set is a set object of
\* the caller's that no attribute is bound to (object 0), held_set the
\* object that attribute s is bound to, same_set the object that is also
\* passed as new_sync.
fresh_set(elems) == [object |-> 0, elems |-> elems]
held_set(s) == [object |-> s, elems |-> elements(s)]
same_set(new_sync) == [object |-> NewSync, elems |-> new_sync.elems]

\* The references to the object that reference s refers to, given the sets
\* P of references to one object.
references_to(P, s) ==
    IF \E c \in P : s \in c THEN CHOOSE c \in P : s \in c ELSE {s}

\* P with ref made one more reference to the object of s.
linked(P, ref, s) ==
    (P \ {references_to(P, s)}) \cup {references_to(P, s) \cup {ref}}

\* The references to one object on entry to the call: the attributes, and
\* the parameters where they are given an object that attributes are bound
\* to or are given one object.
references_at_call(new_sync, new_mlat) ==
    LET P == IF new_sync.object = 0 THEN same_object
             ELSE linked(same_object, NewSync, new_sync.object)
    IN  IF new_mlat.object = 0 THEN P
        ELSE linked(P, NewMlat, new_mlat.object)

\* The elements seen through every reference when the call begins: through
\* the sync_interest and the mlat_interest attributes, then through new_sync
\* and new_mlat.
heap_at_call(new_sync, new_mlat) ==
    sync_interest \o mlat_interest \o <<new_sync.elems, new_mlat.elems>>

\* Every reference to the objects that the references refs refer to.
all_references(P, refs) ==
    refs \cup UNION {c \in P : c \cap refs # {}}

\* new.difference(old), lines 60 and 66.
added_peers(new, old) == new \ old

\* Faulty lines 63 and 69: the loop visits every peer of the old set, not
\* only the peers that new drops.
removed_peers_all(new, old) == old

\* old.difference(new), lines 63 and 69.
removed_peers(new, old) == old \ new

\* Lines 61 and 67: .add(self) on each of the objects, seen through every
\* reference to them.
with_added(heap, refs, r) ==
    [s \in refs |-> heap[s] \cup {r}] @@ heap

\* Faulty lines 64 and 70: clear() where the code calls discard(self).
with_discarded_clearing(heap, refs, r) ==
    [s \in refs |-> {}] @@ heap

\* Lines 64 and 70: .discard(self) on each of the objects.
with_discarded(heap, refs, r) ==
    [s \in refs |-> heap[s] \ {r}] @@ heap

\* Lines 72-73 on the sets of references to one object: r's attributes leave
\* the objects they were bound to and are bound to the objects of new_sync
\* and new_mlat.
rebound(P, r) ==
    {c \in {(c \ {sync_attribute(r), mlat_attribute(r), NewSync, NewMlat})
               \cup (IF NewSync \in c THEN {sync_attribute(r)} ELSE {})
               \cup (IF NewMlat \in c THEN {mlat_attribute(r)} ELSE {}) :
            c \in P} : Cardinality(c) >= 2}

\* Each loop runs to its end before the difference of the next loop is
\* taken (lines 60-70), and the attributes are bound when all four have run
\* (lines 72-73).
update_interest_sets(r, new_sync, new_mlat) ==
    /\ r \in Constructed
    /\ new_sync.elems \subseteq Constructed
    /\ new_mlat.elems \subseteq Constructed
    /\ \E P \in {references_at_call(new_sync, new_mlat)} :
       \E h0 \in {heap_at_call(new_sync, new_mlat)} :
       \E h1 \in {with_added(h0,
                     all_references(P,
                         {sync_attribute(x) :
                             x \in added_peers(h0[NewSync],
                                               h0[sync_attribute(r)])}),
                     r)} :
       \E h2 \in {with_discarded(h1,
                     all_references(P,
                         {sync_attribute(x) :
                             x \in removed_peers(h1[NewSync],
                                                 h1[sync_attribute(r)])}),
                     r)} :
       \E h3 \in {with_added(h2,
                     all_references(P,
                         {mlat_attribute(x) :
                             x \in added_peers(h2[NewMlat],
                                               h2[mlat_attribute(r)])}),
                     r)} :
       \E h4 \in {with_discarded(h3,
                     all_references(P,
                         {mlat_attribute(x) :
                             x \in removed_peers(h3[NewMlat],
                                                 h3[mlat_attribute(r)])}),
                     r)} :
           /\ sync_interest' =
                  [SubSeq(h4, 1, MaxObjects) EXCEPT ![r] = h4[NewSync]]
           /\ mlat_interest' =
                  [SubSeq(h4, MaxObjects + 1, 2 * MaxObjects)
                      EXCEPT ![r] = h4[NewMlat]]
           /\ same_object' = rebound(P, r)
    /\ call' = Call("update_interest_sets", r, user[r], new_sync.elems,
                    new_mlat.elems, "ok")
    /\ UNCHANGED serviceVars
    /\ UNCHANGED <<registryVars, trafficVars>>

\* ------------------------------------------- Receiver.refresh_traffic_requests
\* Line 76: the requested set of receiver r, recomputed from the tracking
\* sets trk.
refreshed_requests(trk, r) ==
    [requested EXCEPT ![r] = {x \in trk[r] : x \in interesting}]

\* Lines 76-77 for receiver r whose tracking sets are trk: requested is
\* recomputed and pushed to the connection.
refresh_traffic_requests(trk, r) ==
    /\ requested' = refreshed_requests(trk, r)
    /\ traffic_request' = [traffic_request EXCEPT ![r] =
                               refreshed_requests(trk, r)[r]]

\* ------------------------------------------------------------ the Tracker
\* tracker.add(receiver, icao_set): the aircraft join the tracking set
\* (spec 3, spec 6).
tracker_add(r, icao_set) == [tracking EXCEPT ![r] = @ \cup icao_set]

\* tracker.remove(receiver, icao_set): the aircraft leave the tracking set.
tracker_remove(r, icao_set) == [tracking EXCEPT ![r] = @ \ icao_set]

\* tracker.update_interest(receiver): the recomputation of spec 4.4, which
\* refreshes the receiver's traffic requests inside the same call.
tracker_update_interest(trk, r) == refresh_traffic_requests(trk, r)

\* An aircraft's .interesting changes (the Tracker's policy, spec 4.4).
aircraft_interest_changes(a) ==
    /\ interesting' = IF a \in interesting THEN interesting \ {a}
                      ELSE interesting \cup {a}
    /\ call' = Call("aircraft_interest_changes", 0, 0, {}, {}, "ok")
    /\ UNCHANGED serviceVars
    /\ UNCHANGED <<registryVars, interestVars, last_rate_report, tracking,
                   requested, traffic_request>>

\* A faulty receiver_tracking_add: tracker.update_interest is called whether
\* or not the receiver has supplied a rate report.
receiver_tracking_add_always_updating(r, icao_set) ==
    /\ r \in Constructed
    /\ tracking' = tracker_add(r, icao_set)
    /\ tracker_update_interest(tracking', r)
    /\ call' = Call("receiver_tracking_add", r, user[r], {}, {},
                    "interest_updated")
    /\ UNCHANGED serviceVars
    /\ UNCHANGED <<registryVars, interestVars, last_rate_report, interesting>>

\* ------------------------------- Coordinator.receiver_tracking_add / _remove
\* Lines 227-230.
receiver_tracking_add(r, icao_set) ==
    /\ r \in Constructed
    /\ tracking' = tracker_add(r, icao_set)
    /\ IF last_rate_report[r] = "None"
       THEN /\ tracker_update_interest(tracking', r)
            /\ call' = Call("receiver_tracking_add", r, user[r], {}, {},
                            "interest_updated")
       ELSE /\ UNCHANGED <<requested, traffic_request>>
            /\ call' = Call("receiver_tracking_add", r, user[r], {}, {},
                            "interest_not_updated")
    /\ UNCHANGED serviceVars
    /\ UNCHANGED <<registryVars, interestVars, last_rate_report, interesting>>

\* Lines 234-237.
receiver_tracking_remove(r, icao_set) ==
    /\ r \in Constructed
    /\ tracking' = tracker_remove(r, icao_set)
    /\ IF last_rate_report[r] = "None"
       THEN /\ tracker_update_interest(tracking', r)
            /\ call' = Call("receiver_tracking_remove", r, user[r], {}, {},
                            "interest_updated")
       ELSE /\ UNCHANGED <<requested, traffic_request>>
            /\ call' = Call("receiver_tracking_remove", r, user[r], {}, {},
                            "interest_not_updated")
    /\ UNCHANGED serviceVars
    /\ UNCHANGED <<registryVars, interestVars, last_rate_report, interesting>>

\* ---------------------------------------- Coordinator.receiver_rate_report
\* Lines 245-246.
receiver_rate_report(r) ==
    /\ r \in Constructed
    /\ last_rate_report' = [last_rate_report EXCEPT ![r] = "report"]
    /\ tracker_update_interest(tracking, r)
    /\ call' = Call("receiver_rate_report", r, user[r], {}, {},
                    "interest_updated")
    /\ UNCHANGED serviceVars
    /\ UNCHANGED <<registryVars, interestVars, tracking, interesting>>

\* ------------------------------------- Coordinator.add/remove_sighup_handler
\* handler in self.sighup_handlers
registered(h) == \E i \in 1..Len(sighup_handlers) : sighup_handlers[i] = h

\* list.remove(handler): the list without the first occurrence of h.
handlers_without(h) ==
    LET i == CHOOSE k \in 1..Len(sighup_handlers) :
                 /\ sighup_handlers[k] = h
                 /\ \A j \in 1..(k - 1) : sighup_handlers[j] # h
    IN  SubSeq(sighup_handlers, 1, i - 1)
            \o SubSeq(sighup_handlers, i + 1, Len(sighup_handlers))

\* The record of one add/remove_sighup_handler call: the handler it was
\* given, how it ended, and whether a handler made it during a dispatch pass.
HandlerCall(op, h, result) ==
    [op |-> op, handler |-> h, result |-> result,
     in_pass |-> dispatch_state = "running"]

\* Lines 124-126: the hook is installed before the first handler is
\* appended.  The same handler may be appended more than once.
add_sighup_handler(h) ==
    /\ Len(sighup_handlers) < MaxRegistrations
    /\ signal_hook' = IF sighup_handlers = << >> THEN TRUE ELSE signal_hook
    /\ sighup_handlers' = Append(sighup_handlers, h)
    /\ handler_call' = HandlerCall("add_sighup_handler", h, "ok")

\* A faulty remove_sighup_handler: lines 130-131 are missing, the hook stays
\* installed when the last handler goes.
remove_sighup_handler_keeping_hook(h) ==
    IF registered(h)
    THEN /\ sighup_handlers' = handlers_without(h)
         /\ signal_hook' = signal_hook
         /\ handler_call' = HandlerCall("remove_sighup_handler", h, "ok")
    ELSE /\ handler_call' = HandlerCall("remove_sighup_handler", h,
                                        "ValueError")
         /\ UNCHANGED <<sighup_handlers, signal_hook>>

\* Lines 129-131: list.remove raises ValueError for a handler that is not in
\* the list, and then lines 130-131 are not reached; otherwise the hook is
\* removed with the last handler.
remove_sighup_handler(h) ==
    IF registered(h)
    THEN /\ sighup_handlers' = handlers_without(h)
         /\ signal_hook' = IF handlers_without(h) = << >> THEN FALSE
                           ELSE signal_hook
         /\ handler_call' = HandlerCall("remove_sighup_handler", h, "ok")
    ELSE /\ handler_call' = HandlerCall("remove_sighup_handler", h,
                                        "ValueError")
         /\ UNCHANGED <<sighup_handlers, signal_hook>>

\* add_sighup_handler / remove_sighup_handler called while no dispatch pass
\* is on the stack.
register(h) ==
    /\ dispatch_state # "running"
    /\ add_sighup_handler(h)
    /\ UNCHANGED <<dispatch_state, dispatch_snapshot, dispatch_invoked>>
    /\ UNCHANGED <<receiverVars, forwardVars, snapshotVars>>

deregister(h) ==
    /\ dispatch_state # "running"
    /\ remove_sighup_handler(h)
    /\ UNCHANGED <<dispatch_state, dispatch_snapshot, dispatch_invoked>>
    /\ UNCHANGED <<receiverVars, forwardVars, snapshotVars>>

\* ------------------------------------------------------- Coordinator.sighup
\* What a handler may do when it is invoked: return, raise, or register or
\* deregister a handler and return.
HandlerEffects ==
    {<<"return", 0>>, <<"raise", 0>>}
        \cup {<<"add", h>> : h \in Handlers}
        \cup {<<"remove", h>> : h \in Handlers}

\* A faulty line 134: the loop runs over the list itself.
dispatch_list_live == sighup_handlers

\* Line 134: the loop runs over the copy self.sighup_handlers[:] taken when
\* the pass began.
dispatch_list == dispatch_snapshot

\* The for loop after i handlers have been invoked: it goes on while the
\* list it runs over has more elements.
pass_after(i) == IF i < Len(dispatch_list') THEN "running" ELSE "completed"

\* A faulty line 135: the call is wrapped in try/except and the loop goes on.
pass_after_raise_caught(i) == pass_after(i)

\* Line 135: nothing catches the exception of a handler; it leaves the loop
\* and sighup.
pass_after_raise(i) == "raised"

\* The signal is raised: the loop calls self.sighup through the hook, and
\* line 134 takes its copy of the handler list.
sighup_begin ==
    /\ signal_hook
    /\ dispatch_state # "running"
    /\ dispatch_snapshot' = sighup_handlers
    /\ dispatch_invoked' = << >>
    /\ dispatch_state' = IF sighup_handlers = << >> THEN "completed"
                         ELSE "running"
    /\ UNCHANGED <<sighup_handlers, signal_hook, handler_call>>
    /\ UNCHANGED <<receiverVars, forwardVars, snapshotVars>>

\* Line 135: the next handler of the pass is invoked and does what effect
\* says.  A handler whose remove_sighup_handler call raises lets the
\* ValueError out.
sighup_invoke(effect) ==
    /\ dispatch_state = "running"
    /\ UNCHANGED dispatch_snapshot
    /\ LET i == Len(dispatch_invoked) + 1
           h == dispatch_list[i]
       IN  /\ i <= Len(dispatch_list)
           /\ CASE effect[1] = "return" ->
                     UNCHANGED <<sighup_handlers, signal_hook, handler_call>>
                [] effect[1] = "raise" ->
                     UNCHANGED <<sighup_handlers, signal_hook, handler_call>>
                [] effect[1] = "add" -> add_sighup_handler(effect[2])
                [] effect[1] = "remove" -> remove_sighup_handler(effect[2])
           /\ LET raised == \/ effect[1] = "raise"
                            \/ /\ effect[1] = "remove"
                               /\ ~registered(effect[2])
              IN  /\ dispatch_invoked' =
                        Append(dispatch_invoked,
                               [handler |-> h,
                                outcome |-> IF raised THEN "raised"
                                            ELSE "returned"])
                  /\ dispatch_state' = IF raised THEN pass_after_raise(i)
                                       ELSE pass_after(i)
    /\ UNCHANGED <<receiverVars, forwardVars, snapshotVars>>

\* ---------------------------------------------- Coordinator.forward_results
\* The collections of receivers a result may be forwarded to, in the order
\* in which the loop of line 249 meets them.
Recipients ==
    {order \in UNION {[1..n -> Constructed] : n \in 0..constructed} :
        \A i, j \in 1..Len(order) : order[i] = order[j] => i = j}

\* What one forward_results call has done so far.
NothingForwarded ==
    [attempts |-> [o \in Objs |-> 0], delivered |-> [o \in Objs |-> 0],
     logged |-> {}, outcome |-> "running"]

\* A faulty loop without the try/except of lines 250-256: the exception of
\* report_mlat_position leaves the loop and forward_results.
RECURSIVE forward_loop_unguarded(_, _, _, _)
forward_loop_unguarded(order, failing, i, done) ==
    IF i > Len(order) THEN [done EXCEPT !.outcome = "returned"]
    ELSE LET r == order[i]
             tried == [done EXCEPT !.attempts[r] = @ + 1]
         IN  IF r \in failing
             THEN [tried EXCEPT !.outcome = "raised"]
             ELSE forward_loop_unguarded(order, failing, i + 1,
                      [tried EXCEPT !.delivered[r] = @ + 1])

\* Lines 249-256 from the i-th receiver of order on: report_mlat_position
\* is called for the receiver; if it raises an Exception (the receivers in
\* failing), the exception is logged and the loop goes on.
RECURSIVE forward_loop(_, _, _, _)
forward_loop(order, failing, i, done) ==
    IF i > Len(order) THEN [done EXCEPT !.outcome = "returned"]
    ELSE LET r == order[i]
             tried == [done EXCEPT !.attempts[r] = @ + 1]
         IN  IF r \in failing
             THEN forward_loop(order, failing, i + 1,
                      [tried EXCEPT !.logged = @ \cup {r}])
             ELSE forward_loop(order, failing, i + 1,
                      [tried EXCEPT !.delivered[r] = @ + 1])

\* Lines 248-256.
forward_results(order, failing) ==
    /\ order \in Recipients
    /\ failing \subseteq {order[i] : i \in 1..Len(order)}
    /\ LET done == forward_loop(order, failing, 1, NothingForwarded)
       IN  /\ forward_call' = [receivers |-> order, failing |-> failing]
           /\ forward_attempts' = done.attempts
           /\ forward_delivered' = done.delivered
           /\ forward_logged' = done.logged
           /\ forward_outcome' = done.outcome
    /\ UNCHANGED <<receiverVars, signalVars, snapshotVars>>

\* -------------------------------------------------- Coordinator.write_state
\* clock_tracker.dump_receiver_state(r): the peers of the receiver (spec 4.6,
\* view (a)).
clock_tracker_dump_receiver_state(r) == {user[p] : p \in sync_interest[r]}

\* A faulty line 145: the loop runs over every Receiver object there is,
\* retired ones included.
snapshot_receivers_ever_constructed == Constructed

\* Line 145: self.receivers.values()
snapshot_receivers == Values(receivers)

\* The receiver whose entry is stored last under r.user == u by the loop of
\* lines 145-155.
snapshot_entry(u) == CHOOSE r \in snapshot_receivers : user[r] = u

\* Lines 142, 146-148: the dict sync.
sync_dict ==
    [u \in {user[r] : r \in snapshot_receivers} |->
        [peers |-> clock_tracker_dump_receiver_state(snapshot_entry(u))]]

\* Lines 143, 149-155: the dict locations; connection_info stands for the
\* receiver object it was given to.
locations_dict ==
    [u \in {user[r] : r \in snapshot_receivers} |->
        [position |-> position[snapshot_entry(u)],
         connection |-> snapshot_entry(u)]]

\* Line 112: the write_state task is created; it is pending at its sleep.
start ==
    /\ write_state_task = "none"
    /\ write_state_task' = "pending"
    /\ UNCHANGED <<cancel_requested, wait_closed_done, sync_view,
                   locations_view>>
    /\ UNCHANGED <<receiverVars, signalVars, forwardVars>>

\* Lines 140-161: the sleep of a task that has not been cancelled ends, the
\* two dicts are built and written, and the task is at its sleep again.
\* There is no suspension between line 142 and line 161.
write_state ==
    /\ write_state_task = "pending"
    /\ ~cancel_requested
    /\ sync_view' = sync_dict
    /\ locations_view' = locations_dict
    /\ UNCHANGED <<write_state_task, cancel_requested, wait_closed_done>>
    /\ UNCHANGED <<receiverVars, signalVars, forwardVars>>

\* Line 164: Task.cancel() asks for the cancellation of the task; the task
\* is still pending when close returns.
close ==
    /\ write_state_task # "none"
    /\ cancel_requested' = (cancel_requested \/ write_state_task = "pending")
    /\ UNCHANGED <<write_state_task, wait_closed_done, sync_view,
                   locations_view>>
    /\ UNCHANGED <<receiverVars, signalVars, forwardVars>>

\* The event loop runs the task whose cancellation was asked for:
\* CancelledError is raised at line 140, nothing in write_state catches it,
\* and the task is cancelled.
write_state_cancelled ==
    /\ write_state_task = "pending"
    /\ cancel_requested
    /\ write_state_task' = "cancelled"
    /\ UNCHANGED <<cancel_requested, wait_closed_done, sync_view,
                   locations_view>>
    /\ UNCHANGED <<receiverVars, signalVars, forwardVars>>

\* util.safe_wait(futures): returns an awaitable for the completion of the
\* futures and has no effect of its own.
util_safe_wait == UNCHANGED <<write_state_task, cancel_requested>>

\* Lines 166-168: the awaitable that util.safe_wait returns is dropped (there
\* is no yield from), so the coroutine completes without a suspension,
\* whatever the state of the task.
wait_closed ==
    /\ write_state_task # "none"
    /\ util_safe_wait
    /\ wait_closed_done' = IF cancel_requested THEN "after_close"
                           ELSE "before_close"
    /\ UNCHANGED <<sync_view, locations_view>>
    /\ UNCHANGED <<receiverVars, signalVars, forwardVars>>

\* ------------------------------------------------------- specifications
\* The registry and the distance maps: admissions, with every outcome of the
\* authenticator, and disconnects of any receiver object.
Next ==
    \/ \E u \in Users, p \in Positions :
          /\ already_connected(u) \/ constructed < MaxSessions
          /\ new_receiver(u, p)
    \/ \E r \in Objs : receiver_disconnect(r)

Spec == Init /\ [][Next]_vars

\* The registry together with the interest relation engine.  Positions play
\* no part in the interest sets, so every receiver is placed at position 0.
\* Every call is given two target sets of its own, which no receiver holds;
\* the mlat target set is any set of peers when the sync target set is empty
\* and is empty or has the elements of the sync target set otherwise (every
\* pair of sets for two receivers).  NextAdmission draws the two sets independently, NextShared
\* draws set objects that receivers hold as well.
NextInterest ==
    \/ \E u \in Users :
          \/ new_receiver_duplicate(u)
          \/ constructed < MaxSessions /\ new_receiver_admitted(u, 0, u)
    \/ \E r \in Objs : receiver_disconnect(r)
    \/ \E r \in Constructed :
          \E new_sync \in SUBSET (Constructed \ {r}) :
             \E new_mlat \in IF new_sync = {} THEN SUBSET (Constructed \ {r})
                              ELSE {{}, new_sync} :
                update_interest_sets(r, fresh_set(new_sync),
                                     fresh_set(new_mlat))

SpecInterest == Init /\ [][NextInterest]_vars

\* Admissions, with every outcome of the authenticator, among receivers
\* whose interest sets are being reconciled; every receiver is at position 0.
NextAdmission ==
    \/ \E u \in Users :
          /\ already_connected(u) \/ constructed < MaxSessions
          /\ new_receiver(u, 0)
    \/ \E r \in Constructed :
          \E new_sync \in SUBSET (Constructed \ {r}),
             new_mlat \in SUBSET (Constructed \ {r}) :
                update_interest_sets(r, fresh_set(new_sync),
                                     fresh_set(new_mlat))

SpecAdmission == Init /\ [][NextAdmission]_vars

\* The traffic reconciler: receivers are admitted (MaxReporters of them) and
\* then report tracking changes and rates while aircraft become and cease to
\* be interesting.
NextTraffic ==
    \/ \E u \in Users :
          \/ new_receiver_duplicate(u)
          \/ constructed < MaxReporters /\ new_receiver_admitted(u, 0, u)
    \/ \E r \in Objs, icao_set \in SUBSET Aircraft :
          receiver_tracking_add(r, icao_set)
    \/ \E r \in Objs, icao_set \in SUBSET Aircraft :
          receiver_tracking_remove(r, icao_set)
    \/ \E r \in Objs : receiver_rate_report(r)
    \/ \E a \in Aircraft : aircraft_interest_changes(a)

SpecTraffic == Init /\ [][NextTraffic]_vars


\* The signal multiplexer: handlers are registered and deregistered, by the
\* program and by handlers during a dispatch pass, and the signal is raised.
NextSignal ==
    \/ \E h \in Handlers : register(h)
    \/ \E h \in Handlers : deregister(h)
    \/ sighup_begin
    \/ \E effect \in HandlerEffects : sighup_invoke(effect)

SpecSignal == Init /\ [][NextSignal]_vars


\* The result fan-out: receivers are admitted, each under a user of its own,
\* and retired, and results are forwarded to collections of receiver objects,
\* some of whose connections fail.
NextForward ==
    \/ /\ constructed < MaxSessions
       /\ new_receiver_admitted(constructed + 1, 0, constructed + 1)
    \/ \E r \in Objs : receiver_disconnect(r)
    \/ \E order \in Recipients :
          \E failing \in SUBSET {order[i] : i \in 1..Len(order)} :
             forward_results(order, failing)

SpecForward == Init /\ [][NextForward]_vars


\* The snapshot task and the shutdown: the task is started, wakes up and
\* writes while receivers are admitted and retired, and is cancelled by
\* close.
NextSnapshot ==
    \/ \E u \in Users :
          constructed < MaxSessions /\ new_receiver_admitted(u, 0, u)
    \/ \E r \in Objs : receiver_disconnect(r)
    \/ start
    \/ write_state
    \/ close
    \/ write_state_cancelled
    \/ wait_closed

SpecSnapshot == Init /\ [][NextSnapshot]_vars


\* The interest relation among three receivers and more: every receiver is
\* admitted under a user of its own, and the tracker reconciles the interest
\* sets of any of them with target sets of the call's own; the mlat target
\* set is empty or has the elements of the sync target set.
NextPeers ==
    \/ new_receiver_admitted(constructed + 1, 0, constructed + 1)
    \/ \E r \in Constructed :
          \E new_sync \in SUBSET (Constructed \ {r}) :
             \E new_mlat \in {{}, new_sync} :
                update_interest_sets(r, fresh_set(new_sync),
                                     fresh_set(new_mlat))

SpecPeers == Init /\ [][NextPeers]_vars


\* The interest relation over set objects that the caller keeps: every
\* receiver is admitted under a user of its own, and each target of a
\* reconciliation is a set object of the caller's that no receiver holds, or
\* the object that some attribute of a receiver is bound to; the two targets
\* can be one object.  A target is any set of receivers: line 59 takes any
\* set and lines 60-73 have no test for self, so the receiver that is
\* reconciled can be an element of its own targets.
TargetObjects ==
    {fresh_set(new) : new \in SUBSET Constructed}
        \cup {held_set(sync_attribute(x)) : x \in Constructed}
        \cup {held_set(mlat_attribute(x)) : x \in Constructed}

NextShared ==
    \/ /\ constructed < MaxSessions
       /\ new_receiver_admitted(constructed + 1, 0, constructed + 1)
    \/ \E r \in Constructed :
          \E new_sync \in TargetObjects :
             \E new_mlat \in TargetObjects \cup {same_set(new_sync)} :
                update_interest_sets(r, new_sync, new_mlat)

SpecShared == Init /\ [][NextShared]_vars

\* ---------------------------------------------------------------- claims
\* The receivers that are registered.
Live == Values(receivers)

\* C1: after every new_receiver and receiver_disconnect the distance mesh
\* over the registered receivers is complete and symmetric: each of two
\* registered receivers has an entry for the other, both entries are the
\* distance between their positions, and a receiver's entry for itself is 0.
DistanceMeshComplete ==
    \A r \in Live, s \in Live :
        /\ s \in DOMAIN distance[r]
        /\ r \in DOMAIN distance[s]
        /\ distance[r][s] = ecef_distance(position[r], position[s])
        /\ distance[s][r] = distance[r][s]
        /\ distance[r][r] = 0

\* Two registered receivers at different positions, the second admitted
\* after a receiver has been retired or while the first is registered.
DistanceMeshWitness ==
    /\ call.op = "new_receiver"
    /\ call.result = "ok"
    /\ \E r \in Live, s \in Live :
        /\ r # s
        /\ s \in DOMAIN distance[r]
        /\ distance[r][s] > 0

\* C2: after every update_interest_sets call, on any receivers with any
\* target sets, both interest relations are symmetric: x is in r's sync
\* (mlat) set exactly when r is in x's.
InterestSymmetric ==
    \A r \in Objs, x \in Objs :
        /\ (x \in sync_interest[r]) <=> (r \in sync_interest[x])
        /\ (x \in mlat_interest[r]) <=> (r \in mlat_interest[x])

\* C3: an entry of the registry is never overwritten: as long as a user
\* stays a key of the registry, it maps to the same receiver object.
AdmissionNeverOverwrites ==
    [][\A u \in DOMAIN receivers :
          u \in DOMAIN receivers' => receivers'[u] = receivers[u]]_vars

\* C4: new_receiver for a user who is a key of the registry fails, and the
\* registry, every distance map and every interest set are as before.
DuplicateRejectedUnchanged ==
    [][(call'.op = "new_receiver" /\ call'.user \in DOMAIN receivers)
         => /\ call'.result = "already_connected"
            /\ UNCHANGED <<receivers, distance, sync_interest,
                           mlat_interest>>]_vars

\* A duplicate admission has just failed while the registered receiver has
\* peers in its distance map and in its interest sets.
DuplicateRejectedWitness ==
    /\ call.op = "new_receiver"
    /\ call.result = "already_connected"
    /\ \E r \in Live :
        /\ user[r] = call.user
        /\ Cardinality(DOMAIN distance[r]) > 1
        /\ sync_interest[r] # {}

\* C5: when the authenticator raises, the registry is unchanged, the
\* distance map and interest sets of every receiver that existed are
\* unchanged, and the rejected receiver is in no other receiver's distance
\* map.
AuthRejectionTouchesNothing ==
    [][(call'.op = "new_receiver" /\ call'.result = "auth_failed")
         => /\ receivers' = receivers
            /\ \A o \in Constructed :
                /\ distance'[o] = distance[o]
                /\ sync_interest'[o] = sync_interest[o]
                /\ mlat_interest'[o] = mlat_interest[o]
            /\ \A o \in Objs \ {call'.receiver} :
                call'.receiver \notin DOMAIN distance'[o]]_vars

\* The authenticator has just rejected a receiver while another receiver
\* is registered.
AuthRejectionWitness ==
    /\ call.op = "new_receiver"
    /\ call.result = "auth_failed"
    /\ Live # {}
    /\ call.receiver \notin Live

\* C6: no receiver whose dead flag is set is registered or is a key of a
\* registered receiver's distance map.
DeadReceiversPurged ==
    \A d \in Objs :
        dead[d] => /\ d \notin Live
                   /\ \A o \in Live : d \notin DOMAIN distance[o]

\* C7: once receiver_disconnect has retired a receiver, that receiver is in
\* no registered receiver's sync or mlat interest set.
RetiredLeavesInterestSets ==
    [][(call'.op = "receiver_disconnect" /\ call'.result = "ok")
         => \A o \in Values(receivers') :
               /\ call'.receiver \notin sync_interest'[o]
               /\ call'.receiver \notin mlat_interest'[o]]_vars

\* C8: every receiver's requested set is a subset of its tracking set.
RequestedSubsetOfTracking ==
    \A r \in Objs : requested[r] \subseteq tracking[r]

\* C9: receiver_disconnect of a receiver that is not the registry's entry
\* for its user changes neither the registry nor any distance map and
\* notifies neither the Tracker nor the ClockTracker; each of them is told
\* at most once about a receiver object.
StaleDisconnectIgnored ==
    /\ [][(/\ call'.op = "receiver_disconnect"
           /\ ~(/\ user[call'.receiver] \in DOMAIN receivers
                /\ receivers[user[call'.receiver]] = call'.receiver))
            => UNCHANGED <<receivers, distance, tracker_removed,
                           clock_disconnected>>]_vars
    /\ [](\A o \in Objs : tracker_removed[o] <= 1 /\ clock_disconnected[o] <= 1)

\* A retired receiver has just been disconnected again while another
\* receiver is registered under its user.
StaleDisconnectWitness ==
    /\ call.op = "receiver_disconnect"
    /\ call.result = "ignored"
    /\ tracker_removed[call.receiver] = 1
    /\ call.user \in DOMAIN receivers
    /\ receivers[call.user] # call.receiver

\* C10: an update_interest_sets call that repeats the call before it, on
\* the same receiver with the same target sets, changes no interest set.
ReconcileIdempotent ==
    [][(call'.op = "update_interest_sets" /\ call'.repeated)
         => UNCHANGED <<sync_interest, mlat_interest>>]_vars

\* A reconcile call that gave a receiver a peer has just been repeated.
ReconcileIdempotentWitness ==
    /\ call.op = "update_interest_sets"
    /\ call.repeated
    /\ call.new_sync # {}
    /\ call.new_mlat # call.new_sync


\* C17: receiver_disconnect of a receiver that is not the registry's entry
\* for its user leaves that receiver's dead flag as it was, and no dead flag
\* ever goes from TRUE back to FALSE.
DeadSetOnlyWhenActing ==
    /\ [][(/\ call'.op = "receiver_disconnect"
           /\ ~(/\ user[call'.receiver] \in DOMAIN receivers
                /\ receivers[user[call'.receiver]] = call'.receiver))
            => dead'[call'.receiver] = dead[call'.receiver]]_vars
    /\ [][\A o \in Objs : dead[o] => dead'[o]]_vars

\* C15: a tracking add or remove for a receiver without a rate report, and
\* every rate report, recomputes the receiver's requests inside the same
\* call from the state the call has just produced; a tracking add or remove
\* for a receiver with a rate report changes the tracking set and triggers
\* no recomputation.
RecomputedExactlyWhenDue ==
    [][LET r == call'.receiver
           recomputed ==
               /\ call'.result = "interest_updated"
               /\ requested'[r] = {x \in tracking'[r] : x \in interesting'}
               /\ traffic_request'[r] = requested'[r]
           untouched ==
               /\ call'.result = "interest_not_updated"
               /\ requested' = requested
               /\ traffic_request' = traffic_request
       IN  /\ call'.op = "receiver_tracking_add"
                => /\ tracking[r] \subseteq tracking'[r]
                   /\ IF last_rate_report[r] = "None" THEN recomputed
                      ELSE untouched
           /\ call'.op = "receiver_tracking_remove"
                => /\ tracking'[r] \subseteq tracking[r]
                   /\ IF last_rate_report[r] = "None" THEN recomputed
                      ELSE untouched
           /\ call'.op = "receiver_rate_report"
                => /\ last_rate_report'[r] # "None"
                   /\ recomputed]_vars

\* A receiver that has a rate report has just had an interesting aircraft
\* added to its tracking set, and its requests were left as they were.
RecomputedWhenDueWitness ==
    /\ call.op = "receiver_tracking_add"
    /\ call.result = "interest_not_updated"
    /\ last_rate_report[call.receiver] # "None"
    /\ \E a \in tracking[call.receiver] :
          a \in interesting /\ a \notin requested[call.receiver]

\* The handlers a dispatch pass has invoked, in the order of invocation.
InvokedHandlers ==
    [i \in 1..Len(dispatch_invoked) |-> dispatch_invoked[i].handler]

\* C12: a dispatch pass runs over the handler list as it was when the pass
\* began: the handlers it has invoked are at every moment the first ones of
\* that list, in registration order, and a pass that has run to its end has
\* invoked that list, each registration once, whatever the handlers have
\* registered or deregistered meanwhile.
DispatchRunsSnapshot ==
    /\ [](/\ Len(InvokedHandlers) <= Len(dispatch_snapshot)
          /\ InvokedHandlers
                = SubSeq(dispatch_snapshot, 1, Len(InvokedHandlers))
          /\ dispatch_state = "completed"
                => InvokedHandlers = dispatch_snapshot)
    /\ [][/\ (dispatch_state # "running" /\ dispatch_state' = "running")
                => dispatch_snapshot' = sighup_handlers
          /\ dispatch_state = "running"
                => dispatch_snapshot' = dispatch_snapshot]_vars

\* A pass over two handlers has run to its end although its first handler
\* deregistered the second one.
DispatchRunsSnapshotWitness ==
    /\ dispatch_state = "completed"
    /\ Len(dispatch_snapshot) = 2
    /\ dispatch_snapshot[1] # dispatch_snapshot[2]
    /\ sighup_handlers = <<dispatch_snapshot[1]>>
    /\ InvokedHandlers = dispatch_snapshot

\* C13: the hook is installed exactly when the handler list is non-empty,
\* after every add_sighup_handler and remove_sighup_handler call, those made
\* by handlers during a dispatch pass and those that raise included.
HookIffHandlers == signal_hook <=> sighup_handlers # << >>

\* A handler has deregistered the last handler during a dispatch pass and
\* the hook is gone.
HookIffHandlersWitness ==
    /\ handler_call.op = "remove_sighup_handler"
    /\ handler_call.result = "ok"
    /\ handler_call.in_pass
    /\ sighup_handlers = << >>
    /\ ~signal_hook

\* C18: a handler that raises ends the dispatch pass: it is the last handler
\* the pass invokes, the pass ends with the exception, and the step leaves
\* the handler list and the hook as they were.
HandlerFailurePropagates ==
    /\ [](\A i \in 1..Len(dispatch_invoked) :
             dispatch_invoked[i].outcome = "raised"
                => i = Len(dispatch_invoked) /\ dispatch_state = "raised")
    /\ [][/\ (dispatch_state = "running" /\ dispatch_state' = "raised")
                => UNCHANGED <<sighup_handlers, signal_hook>>
          /\ (dispatch_state = "raised" /\ dispatch_state' = "raised")
                => dispatch_invoked' = dispatch_invoked]_vars

\* The first of two registered handlers has raised; the second one has not
\* been invoked and both are still registered.
HandlerFailureWitness ==
    /\ dispatch_state = "raised"
    /\ Len(dispatch_snapshot) = 2
    /\ Len(dispatch_invoked) = 1
    /\ dispatch_invoked[1].outcome = "raised"
    /\ sighup_handlers = dispatch_snapshot
    /\ signal_hook

\* C11: after a forward_results call, delivery has been attempted exactly
\* once for every receiver of the collection it was given and for no other
\* receiver; every receiver of the collection whose delivery did not raise
\* has received the result exactly once, whether or not deliveries before
\* it raised, and the call has returned without an exception.
ForwardReachesEveryRecipient ==
    forward_outcome # "none"
        => LET given == {forward_call.receivers[i] :
                            i \in 1..Len(forward_call.receivers)}
           IN  /\ forward_outcome = "returned"
               /\ \A o \in Objs :
                     /\ forward_attempts[o] = IF o \in given THEN 1 ELSE 0
                     /\ forward_delivered[o] =
                           IF o \in given \ forward_call.failing THEN 1
                           ELSE 0
               /\ forward_logged = forward_call.failing

\* A result has been forwarded to two receivers; the delivery to the first
\* one raised and the second one has received the result.
ForwardReachesWitness ==
    /\ forward_outcome = "returned"
    /\ Len(forward_call.receivers) = 2
    /\ forward_call.failing = {forward_call.receivers[1]}
    /\ forward_delivered[forward_call.receivers[2]] = 1
    /\ forward_attempts[forward_call.receivers[1]] = 1

\* C14: once close has been called, a wait_closed that has completed means
\* that the write_state task has terminated, and a task whose cancellation
\* was asked for writes no further snapshot.
WaitClosedAwaitsCancellation ==
    /\ [](wait_closed_done = "after_close" => write_state_task = "cancelled")
    /\ [][cancel_requested
            => UNCHANGED <<sync_view, locations_view>>]_vars

\* C19: a snapshot is taken from one registry state: the two dicts that
\* write_state writes have the keys of the registry of that moment, each
\* entry is the one of the receiver registered under that key, and no entry
\* belongs to a retired receiver.
SnapshotOfOneRegistryState ==
    [][write_state
         => /\ DOMAIN sync_view' = DOMAIN receivers
            /\ DOMAIN locations_view' = DOMAIN receivers
            /\ \A u \in DOMAIN receivers :
                  /\ locations_view'[u].connection = receivers[u]
                  /\ locations_view'[u].position = position[receivers[u]]
                  /\ tracker_removed[locations_view'[u].connection] = 0]_vars

\* The last snapshot has the keys of the registry and holds, under the user
\* of a retired receiver, the entry of the receiver that was admitted under
\* that user afterwards.
SnapshotWitness ==
    /\ DOMAIN locations_view = DOMAIN receivers
    /\ DOMAIN sync_view = DOMAIN receivers
    /\ \E u \in DOMAIN locations_view :
          /\ user[1] = u
          /\ tracker_removed[1] = 1
          /\ locations_view[u].connection = receivers[u]
          /\ receivers[u] # 1

\* One relation after update_interest_sets on r1 with target set s1 and then
\* on r2 with target set s2.
ReconciledInOrder(rel, r1, s1, r2, s2) ==
    reconciled(reconciled(rel, r1, s1), r2, s2)

\* Lines 60 and 63 (66 and 69 for mlat): the peers whose set a call on r
\* with target set new modifies, that is new.difference(old), to which r is
\* added, and old.difference(new), from which r is discarded.  A peer that
\* is in the old and in the new set is not visited.
visited_peers(rel, r, new) == (new \ rel[r]) \cup (rel[r] \ new)

\* The two calls, each taken on the relation rel, touch a shared peer or
\* each other: both modify the set of one peer, or one of them modifies the
\* set of the receiver of the other.
TouchEachOtherOrShare(rel, r1, s1, r2, s2) ==
    \/ visited_peers(rel, r1, s1) \cap visited_peers(rel, r2, s2) # {}
    \/ r2 \in visited_peers(rel, r1, s1)
    \/ r1 \in visited_peers(rel, r2, s2)

Symmetric(rel) ==
    \A r \in Objs, x \in Objs : (x \in rel[r]) <=> (r \in rel[x])

ReconcileTouchesOnlyOwnMembership ==
    [][call'.op = "update_interest_sets"
         => /\ \A x, y \in Objs \ {call'.receiver} :
                  /\ x \in sync_interest'[y] <=> x \in sync_interest[y]
                  /\ x \in mlat_interest'[y] <=> x \in mlat_interest[y]
            /\ UNCHANGED <<receivers, distance, tracking, requested,
                           dead>>]_vars

\* A receiver has been reconciled, gaining one peer and losing another,
\* while those two peers are in each other's sync interest sets.
ReconcileTouchesOnlyWitness ==
    /\ call.op = "update_interest_sets"
    /\ \E x, y \in Constructed \ {call.receiver} :
          /\ x # y
          /\ x \in sync_interest[y]
          /\ y \in sync_interest[x]
          /\ x \in call.new_sync
          /\ call.receiver \in sync_interest[x]
          /\ y \notin call.new_sync
          /\ call.receiver \notin sync_interest[y]
====
